---- MODULE Spec2Model ----
(***************************************************************************)
(* Model of rag_application.ipynb: a notebook that loads the PDF files of  *)
(* ./docs, indexes them into the Qdrant collection "chat_with_docs" and    *)
(* answers queries with a LlamaIndex query engine (retrieve 10, rerank to  *)
(* 3, fill the prompt template, call the Ollama model).                    *)
(*                                                                         *)
(* The notebook is a straight line of library calls with no try/except and *)
(* no loop, so an exception raised inside a call ends the running cell.    *)
(* Each library call is modelled by what that call does; text is a         *)
(* sequence of tokens, an embedding is a vector of token counts.           *)
(***************************************************************************)
EXTENDS Integers, Sequences, FiniteSets, TLC

\* ---------------------------------------------------------------- bounds
MaxQueries == 2        \* number of query_engine.query calls that are followed
ChunkSize == 2         \* tokens per chunk (scaled node-parser chunk size)
InsertBatchSize == 5   \* nodes embedded and written per batch (scaled)
MaxIndexRuns == 2      \* runs of the create_index cell that are followed

\* ------------------------------------------------------ program constants
collection_name == "chat_with_docs"
required_exts == {".pdf"}
similarity_top_k == 10
top_n == 3
BgeModel == "BAAI/bge-large-en-v1.5"
DefaultEmbedModel == "default"

\* the template of the prompt cell: three literal pieces and two slots
template ==
  << "Context information is below:", "{context_str}",
     "Given the context information above ... Query:",
     "{query_str}", "Answer:" >>

\* ------------------------------------------------------------- the inputs
Tokens == {"a", "b", "c"}

\* files that may lie under ./docs
Files == {"f1", "f2", "n1"}

Ext(f) == IF f = "n1" THEN ".txt" ELSE ".pdf"

\* the pages of a PDF file, each a sequence of tokens
Pages(f) ==
  IF f = "f1"
    THEN << <<"a","b", "b","a", "a","a", "a","c", "c","c">>,
            <<"b","b", "b","c", "c","a", "c","b", "c","c">> >>
  ELSE IF f = "f2"
    THEN << <<"a","b", "c">> >>
  ELSE << >>

\* order in which the reader walks the directory (sorted by name)
FileOrder == <<"f1", "f2", "n1">>

QueryStrings == { <<"a","b">>, <<"c">>, <<"b","a">> }

\* texts the language model may generate; "" is an empty completion
LLMTexts == {"", "answer"}

\* --------------------------------------------------------------- helpers
Min(a, b) == IF a < b THEN a ELSE b

Take(s, n) == SubSeq(s, 1, Min(n, Len(s)))

Drop(s, n) == SubSeq(s, Min(n, Len(s)) + 1, Len(s))

RECURSIVE Flatten(_)
Flatten(ss) == IF ss = << >> THEN << >> ELSE Head(ss) \o Flatten(Tail(ss))

Range(s) == { s[i] : i \in 1..Len(s) }

\* ------------------------------------------------- documents and chunking
\* loader.load_data on one readable PDF: one Document per page
FileDocuments(f) ==
  [ p \in 1..Len(Pages(f)) |-> [file |-> f, page |-> p, text |-> Pages(f)[p]] ]

RECURSIVE SplitText(_)
\* the node parser: consecutive pieces of at most ChunkSize tokens
SplitText(toks) ==
  IF toks = << >> THEN << >>
  ELSE << Take(toks, ChunkSize) >> \o SplitText(Drop(toks, ChunkSize))

\* the chunks of one Document; every chunk inherits the Document's metadata
DocumentChunks(d) ==
  LET parts == SplitText(d.text)
  IN  [ k \in 1..Len(parts) |-> [file |-> d.file, page |-> d.page, text |-> parts[k]] ]

RECURSIVE ChunkAll(_)
\* the transformations of VectorStoreIndex.from_documents over all Documents
ChunkAll(ds) ==
  IF ds = << >> THEN << >> ELSE DocumentChunks(Head(ds)) \o ChunkAll(Tail(ds))

\* node ids are fresh on every run: number the chunks from a counter
WithIds(chunks, first) ==
  [ k \in 1..Len(chunks) |->
      [id |-> first + k - 1, file |-> chunks[k].file,
       page |-> chunks[k].page, text |-> chunks[k].text] ]

\* -------------------------------------------- what the models see of a node
PageLabel(p) == IF p = 1 THEN "page_label: 1" ELSE "page_label: 2"

FilePath(f) == IF f = "f1" THEN "file_path: docs/f1.pdf"
               ELSE IF f = "f2" THEN "file_path: docs/f2.pdf"
               ELSE "file_path: docs/old.pdf"

\* the metadata header of a node (the keys not hidden from the models)
MetadataStr(n) == << PageLabel(n.page), FilePath(n.file) >>

\* node.get_content(): metadata header, blank line, text
GetContent(n) == MetadataStr(n) \o << "\n\n" >> \o n.text

\* ------------------------------------------------------------- embeddings
Count(toks, t) == Cardinality({ i \in 1..Len(toks) : toks[i] = t })

\* embed(text): a vector of fixed length per model
Embed(model, toks) ==
  IF model = BgeModel
    THEN << Count(toks, "a"), Count(toks, "b"), Count(toks, "c") >>
    ELSE << Count(toks, "a") + Count(toks, "c"), Count(toks, "b") >>

RECURSIVE Dot(_, _)
Dot(u, v) == IF u = << >> \/ v = << >> THEN 0
             ELSE Head(u) * Head(v) + Dot(Tail(u), Tail(v))

\* cosine similarity of two count vectors, as squared cosine in percent
Similarity(u, v) ==
  IF Dot(u, u) = 0 \/ Dot(v, v) = 0 THEN 0
  ELSE (100 * Dot(u, v) * Dot(u, v)) \div (Dot(u, u) * Dot(v, v))

\* ----------------------------------------------------------- vector store
RECURSIVE InsertByKey(_, _)
\* insert x behind every element whose key is not larger (stable)
InsertByKey(x, s) ==
  IF s = << >> THEN << x >>
  ELSE IF Head(s).key <= x.key THEN << Head(s) >> \o InsertByKey(x, Tail(s))
  ELSE << x >> \o s

RECURSIVE SortedByKey(_)
\* stable sort of keyed items in ascending order of their key
SortedByKey(s) ==
  IF s = << >> THEN << >>
  ELSE InsertByKey(s[Len(s)], SortedByKey(SubSeq(s, 1, Len(s) - 1)))

\* the items of a keyed sequence, in its order
Items(ks) == [ i \in 1..Len(ks) |-> ks[i].item ]

\* variant: the first k points in insertion order, not ranked by similarity
VectorStoreQueryUnranked(points, qvec, k) ==
  Take([ i \in 1..Len(points) |->
           [node |-> points[i].node,
            score |-> Similarity(qvec, points[i].vector)] ], k)

\* query(collection, vector, k): the k nearest points, most similar first
VectorStoreQuery(points, qvec, k) ==
  LET scored == [ i \in 1..Len(points) |->
                    [node |-> points[i].node,
                     score |-> Similarity(qvec, points[i].vector)] ]
      keyed  == [ i \in 1..Len(scored) |->
                    [key |-> 0 - scored[i].score, item |-> scored[i]] ]
  IN  Take(Items(SortedByKey(keyed)), k)

\* ---------------------------------------------------------------- reranker
\* the cross-encoder's relevance of a text to the query
CrossScore(q, toks) ==
  LET Hit(i) == i <= Len(q) /\ toks[i] = q[i]
  IN  2 * Cardinality({ i \in 1..Len(toks) : Hit(i) })
        - Cardinality({ i \in 1..Len(toks) : toks[i] \in Range(q) /\ ~Hit(i) })

\* variant: the sign of the key is lost, so the lowest score sorts first
RerankKeyAscending(x) == x.score

\* the sort key of the reranker: -score, and 0 for a score of 0
RerankKey(x) == IF x.score # 0 THEN 0 - x.score ELSE 0

\* variant: the sorted candidates are not cut to top_n
PostprocessNodesUncut(nodes, q) ==
  LET rescored == [ i \in 1..Len(nodes) |->
                      [node |-> nodes[i].node,
                       score |-> CrossScore(q, nodes[i].node.text)] ]
      keyed    == [ i \in 1..Len(rescored) |->
                      [key |-> RerankKey(rescored[i]), item |-> rescored[i]] ]
  IN  Items(SortedByKey(keyed))

\* rerank: replace every score, sort by the new score, keep top_n
PostprocessNodes(nodes, q) ==
  IF nodes = << >> THEN << >>
  ELSE LET rescored == [ i \in 1..Len(nodes) |->
                           [node |-> nodes[i].node,
                            score |-> CrossScore(q, nodes[i].node.text)] ]
           keyed    == [ i \in 1..Len(rescored) |->
                           [key |-> RerankKey(rescored[i]), item |-> rescored[i]] ]
       IN  Take(Items(SortedByKey(keyed)), top_n)

\* ----------------------------------------------------------- prompt builder
RECURSIVE JoinContents(_)
\* the context block: the nodes' contents joined by a blank line
JoinContents(nodes) ==
  IF nodes = << >> THEN << >>
  ELSE IF Len(nodes) = 1 THEN GetContent(nodes[1].node)
  ELSE GetContent(nodes[1].node) \o << "\n\n" >> \o JoinContents(Tail(nodes))

\* variant: the two values are passed to the wrong slots
FormatPromptSwapped(tmpl, context_str, query_str) ==
  Flatten([ i \in 1..Len(tmpl) |->
              IF tmpl[i] = "{context_str}" THEN query_str
              ELSE IF tmpl[i] = "{query_str}" THEN context_str
              ELSE << tmpl[i] >> ])

\* template.format(context_str=..., query_str=...)
FormatPrompt(tmpl, context_str, query_str) ==
  Flatten([ i \in 1..Len(tmpl) |->
              IF tmpl[i] = "{context_str}" THEN context_str
              ELSE IF tmpl[i] = "{query_str}" THEN query_str
              ELSE << tmpl[i] >> ])

\* the text of the Response for a completion of the language model
ResponseText(out) == IF out = "" THEN "Empty Response" ELSE out

\* ------------------------------------------------------------------ state
VARIABLES
  dir,          \* the files under ./docs
  collection,   \* the Qdrant collection chat_with_docs: exists, dim, points
  pcN,          \* the notebook's position
  nbErr,        \* the exception that ended a setup cell, "" if none
  docs,         \* docs = loader.load_data()
  reported,     \* files the loader reported as failed and skipped
  embed_model,  \* Settings.embed_model
  pending,      \* nodes create_index has not yet embedded and written
  nextId,       \* source of fresh node ids
  index,        \* TRUE once index = create_index(docs) has returned
  runs,         \* number of calls of create_index so far
  qs            \* the calls of query_engine.query, in order

vars == << dir, collection, pcN, nbErr, docs, reported, embed_model,
           pending, nextId, index, runs, qs >>

QueryIds == 1..MaxQueries

\* a point left in the collection by an earlier session
OldNode == [id |-> 0, file |-> "old", page |-> 1, text |-> <<"a", "b">>]

\* a point as the collection holds it: the node (text and metadata as
\* payload), its one embedding, and the model that computed the embedding
MakePoint(n, model) ==
  [node |-> n, vector |-> Embed(model, GetContent(n)), model |-> model]

OldPoint == MakePoint(OldNode, BgeModel)

\* a point written by a session that used another embedding model
ForeignPoint == MakePoint(OldNode, DefaultEmbedModel)

NoCollection == [exists |-> FALSE, dim |-> 0, points |-> << >>]

\* the states the Qdrant server may be in when the notebook starts
InitialCollections ==
  { NoCollection,
    [exists |-> TRUE, dim |-> 3, points |-> << >>],
    [exists |-> TRUE, dim |-> 3, points |-> << OldPoint >>],
    [exists |-> TRUE, dim |-> 2, points |-> << ForeignPoint >>] }

IdleQuery ==
  [ pc |-> "idle", query |-> << >>, qvec |-> << >>, qmodel |-> "",
    nodes |-> << >>,
    reranked |-> << >>, prompt |-> << >>, out |-> "",
    hasResponse |-> FALSE, response |-> [text |-> "", source_nodes |-> << >>],
    trace |-> << >>, calls |-> [embed |-> 0, store |-> 0, llm |-> 0],
    err |-> "" ]

Init ==
  /\ dir \in SUBSET Files
  /\ collection \in InitialCollections
  /\ pcN = "start"
  /\ nbErr = ""
  /\ docs = << >>
  /\ reported = {}
  /\ embed_model = DefaultEmbedModel
  /\ pending = << >>
  /\ nextId = 1
  /\ index = FALSE
  /\ runs = 0
  /\ qs = [ i \in QueryIds |-> IdleQuery ]

\* ------------------------------------------------------------ setup cells
\* the files the reader considers: those with a required extension
InputFiles == { f \in dir : Ext(f) \in required_exts }

RECURSIVE LoadFiles(_, _)
\* the Documents of the readable files, in directory order
LoadFiles(order, bad) ==
  IF order = << >> THEN << >>
  ELSE (IF Head(order) \in InputFiles \ bad
          THEN FileDocuments(Head(order)) ELSE << >>)
       \o LoadFiles(Tail(order), bad)

\* SimpleDirectoryReader(...) finds no file with a required extension
LoaderNoFiles ==
  /\ pcN = "start"
  /\ InputFiles = {}
  /\ pcN' = "halted"
  /\ nbErr' = "no files"
  /\ UNCHANGED << runs, dir, collection, docs, reported, embed_model, pending,
                  nextId, index, qs >>

\* docs = loader.load_data(): a file that fails to parse is reported, skipped
LoadData ==
  /\ pcN = "start"
  /\ InputFiles # {}
  /\ \E bad \in SUBSET InputFiles :
       /\ docs' = LoadFiles(FileOrder, bad)
       /\ reported' = bad
  /\ pcN' = "loaded"
  /\ UNCHANGED << runs, dir, collection, nbErr, embed_model, pending, nextId,
                  index, qs >>

\* Settings.embed_model = embed_model
SetEmbedModel ==
  /\ pcN = "loaded"
  /\ embed_model' = BgeModel
  /\ pcN' = "configured"
  /\ UNCHANGED << runs, dir, collection, nbErr, docs, reported, pending, nextId,
                  index, qs >>

\* create_index(docs), entry: the documents are split into nodes
CreateIndexStart ==
  /\ pcN = "configured"
  /\ pending' = WithIds(ChunkAll(docs), nextId)
  /\ nextId' = nextId + Len(ChunkAll(docs))
  /\ runs' = runs + 1
  /\ pcN' = "indexing"
  /\ UNCHANGED << dir, collection, nbErr, docs, reported, embed_model,
                  index, qs >>

\* the points of a batch of nodes: each node with its embedding
BatchPoints(nodes) ==
  [ k \in 1..Len(nodes) |-> MakePoint(nodes[k], embed_model) ]

\* upsert: the collection is created on the first write; a point whose id
\* is already stored replaces that point, any other point is added
Upsert(coll, points) ==
  LET WithId(id) == CHOOSE p \in Range(points) : p.node.id = id
      newIds == { points[k].node.id : k \in 1..Len(points) }
      oldIds == { coll.points[k].node.id : k \in 1..Len(coll.points) }
      kept   == [ k \in 1..Len(coll.points) |->
                    IF coll.points[k].node.id \in newIds
                      THEN WithId(coll.points[k].node.id)
                      ELSE coll.points[k] ]
      added  == SelectSeq(points, LAMBDA p : p.node.id \notin oldIds)
  IN  [ exists |-> TRUE,
        dim    |-> IF coll.exists THEN coll.dim ELSE Len(points[1].vector),
        points |-> kept \o added ]

\* variant: the store takes a batch whatever the length of its vectors
IndexBatchAnyDim ==
  /\ pcN = "indexing"
  /\ pending # << >>
  /\ collection' = Upsert(collection, BatchPoints(Take(pending, InsertBatchSize)))
  /\ pending' = Drop(pending, InsertBatchSize)
  /\ UNCHANGED << runs, dir, pcN, nbErr, docs, reported, embed_model, nextId,
                  index, qs >>

\* one batch of nodes is embedded and written to the collection
IndexBatch ==
  /\ pcN = "indexing"
  /\ pending # << >>
  /\ LET points == BatchPoints(Take(pending, InsertBatchSize))
     IN  /\ collection.exists => collection.dim = Len(points[1].vector)
         /\ collection' = Upsert(collection, points)
  /\ pending' = Drop(pending, InsertBatchSize)
  /\ UNCHANGED << runs, dir, pcN, nbErr, docs, reported, embed_model, nextId,
                  index, qs >>

\* variant: a batch that fails to embed is skipped and indexing goes on
IndexBatchEmbedSkip ==
  /\ pcN = "indexing"
  /\ pending # << >>
  /\ pending' = Drop(pending, InsertBatchSize)
  /\ nbErr' = "embed"
  /\ UNCHANGED << runs, dir, collection, pcN, docs, reported, embed_model,
                  nextId, index, qs >>

\* the embedding of a batch raises: create_index ends with that exception
IndexBatchEmbedFail ==
  /\ pcN = "indexing"
  /\ pending # << >>
  /\ pcN' = "halted"
  /\ nbErr' = "embed"
  /\ UNCHANGED << runs, dir, collection, docs, reported, embed_model, pending,
                  nextId, index, qs >>

\* the write of a batch raises: create_index ends with that exception
IndexBatchStoreFail ==
  /\ pcN = "indexing"
  /\ pending # << >>
  /\ pcN' = "halted"
  /\ nbErr' = "store"
  /\ UNCHANGED << runs, dir, collection, docs, reported, embed_model, pending,
                  nextId, index, qs >>

\* create_index returns and the notebook binds index
CreateIndexReturn ==
  /\ pcN = "indexing"
  /\ pending = << >>
  /\ index' = TRUE
  /\ pcN' = "ready"
  /\ UNCHANGED << runs, dir, collection, nbErr, docs, reported, embed_model,
                  pending, nextId, qs >>

\* --------------------------------------------------- query_engine.query(q)
\* variant: a query may start while create_index is still writing
MayStartEarly(i) ==
  /\ pcN \in {"indexing", "ready"}
  /\ qs[i].pc = "idle"
  /\ i > 1 => qs[i - 1].pc \in {"done", "error"}

\* the cell runs one query at a time, each after the previous has ended
MayStart(i) ==
  /\ pcN = "ready"
  /\ qs[i].pc = "idle"
  /\ i > 1 => qs[i - 1].pc \in {"done", "error"}

Bump(calls, svc) == [calls EXCEPT ![svc] = @ + 1]

Fail(q, svc) ==
  [q EXCEPT !.pc = "error", !.err = svc, !.calls = Bump(q.calls, svc)]

QFrame == << runs, dir, collection, pcN, nbErr, docs, reported, embed_model,
             pending, nextId, index >>

StartQuery(i) ==
  /\ MayStart(i)
  /\ \E q \in QueryStrings :
       qs' = [qs EXCEPT ![i] = [@ EXCEPT !.pc = "embed", !.query = q]]
  /\ UNCHANGED QFrame

\* variant: the query is embedded with the default model, not the set one
EmbedQueryDefaultModel(i) ==
  /\ qs[i].pc = "embed"
  /\ qs' = [qs EXCEPT ![i] =
              [@ EXCEPT !.pc = "search",
                        !.qvec = Embed(DefaultEmbedModel, qs[i].query),
                        !.qmodel = DefaultEmbedModel,
                        !.calls = Bump(qs[i].calls, "embed")]]
  /\ UNCHANGED QFrame

\* retriever, first call: the query string is embedded
EmbedQuery(i) ==
  /\ qs[i].pc = "embed"
  /\ qs' = [qs EXCEPT ![i] =
              [@ EXCEPT !.pc = "search",
                        !.qvec = Embed(embed_model, qs[i].query),
                        !.qmodel = embed_model,
                        !.calls = Bump(qs[i].calls, "embed")]]
  /\ UNCHANGED QFrame

EmbedQueryFail(i) ==
  /\ qs[i].pc = "embed"
  /\ qs' = [qs EXCEPT ![i] = Fail(qs[i], "embed")]
  /\ UNCHANGED QFrame

\* variant: a later query reuses the nodes retrieved for the previous one
VectorSearchCached(i) ==
  /\ qs[i].pc = "search"
  /\ collection.exists
  /\ collection.dim = Len(qs[i].qvec)
  /\ qs' = [qs EXCEPT ![i] =
              [@ EXCEPT !.pc = "rerank",
                        !.nodes = IF i > 1 /\ Len(qs[i - 1].trace) >= 1
                                    THEN qs[i - 1].nodes
                                    ELSE VectorStoreQuery(collection.points,
                                           qs[i].qvec, similarity_top_k),
                        !.calls = Bump(qs[i].calls, "store"),
                        !.trace = Append(qs[i].trace, "retrieve")]]
  /\ UNCHANGED QFrame

\* retriever, second call: the collection is searched for the nearest points
VectorSearch(i) ==
  /\ qs[i].pc = "search"
  /\ collection.exists
  /\ collection.dim = Len(qs[i].qvec)
  /\ qs' = [qs EXCEPT ![i] =
              [@ EXCEPT !.pc = "rerank",
                        !.nodes = VectorStoreQuery(collection.points,
                                                   qs[i].qvec, similarity_top_k),
                        !.calls = Bump(qs[i].calls, "store"),
                        !.trace = Append(qs[i].trace, "retrieve")]]
  /\ UNCHANGED QFrame

\* the store is unreachable, the collection does not exist, or the query
\* vector has not the collection's dimension
VectorSearchFail(i) ==
  /\ qs[i].pc = "search"
  /\ qs' = [qs EXCEPT ![i] = Fail(qs[i], "store")]
  /\ UNCHANGED QFrame

\* the query that retrieved last, as far as the ids tell
LastRetrieved(i) ==
  IF \E j \in QueryIds : j > i /\ Len(qs[j].trace) >= 1
    THEN CHOOSE j \in QueryIds : j > i /\ Len(qs[j].trace) >= 1
    ELSE i

\* variant: the retrieved nodes sit in one buffer shared by all queries
RerankSharedBuffer(i) ==
  /\ qs[i].pc = "rerank"
  /\ qs' = [qs EXCEPT ![i] =
              [@ EXCEPT !.pc = "synthesize",
                        !.reranked = PostprocessNodes(qs[LastRetrieved(i)].nodes,
                                                      qs[i].query),
                        !.trace = Append(qs[i].trace, "rerank")]]
  /\ UNCHANGED QFrame

\* variant: the postprocessor is applied twice
RerankTwice(i) ==
  /\ qs[i].pc = "rerank"
  /\ qs' = [qs EXCEPT ![i] =
              [@ EXCEPT !.pc = "synthesize",
                        !.reranked = PostprocessNodes(
                                       PostprocessNodes(qs[i].nodes, qs[i].query),
                                       qs[i].query),
                        !.trace = qs[i].trace \o << "rerank", "rerank" >>]]
  /\ UNCHANGED QFrame

\* node_postprocessors=[rerank]
Rerank(i) ==
  /\ qs[i].pc = "rerank"
  /\ qs' = [qs EXCEPT ![i] =
              [@ EXCEPT !.pc = "synthesize",
                        !.reranked = PostprocessNodes(qs[i].nodes, qs[i].query),
                        !.trace = Append(qs[i].trace, "rerank")]]
  /\ UNCHANGED QFrame

\* variant: with no node the prompt is still built, with an empty context
SynthesizeEmptyViaModel(i) ==
  /\ qs[i].pc = "synthesize"
  /\ qs[i].reranked = << >>
  /\ qs' = [qs EXCEPT ![i] =
              [@ EXCEPT !.pc = "generate",
                        !.prompt = FormatPrompt(template, << >>, qs[i].query),
                        !.trace = Append(qs[i].trace, "prompt")]]
  /\ UNCHANGED QFrame

\* the synthesizer is given no node: it answers without prompt or model
SynthesizeEmpty(i) ==
  /\ qs[i].pc = "synthesize"
  /\ qs[i].reranked = << >>
  /\ qs' = [qs EXCEPT ![i] =
              [@ EXCEPT !.pc = "done",
                        !.hasResponse = TRUE,
                        !.response = [text |-> "Empty Response",
                                      source_nodes |-> qs[i].reranked]]]
  /\ UNCHANGED QFrame

\* the text_qa_template is filled with the nodes' contents and the query
BuildPrompt(i) ==
  /\ qs[i].pc = "synthesize"
  /\ qs[i].reranked # << >>
  /\ qs' = [qs EXCEPT ![i] =
              [@ EXCEPT !.pc = "generate",
                        !.prompt = FormatPrompt(template,
                                                JoinContents(qs[i].reranked),
                                                qs[i].query),
                        !.trace = Append(qs[i].trace, "prompt")]]
  /\ UNCHANGED QFrame

\* variant: the Response cites the retrieved nodes, not the reranked ones
GenerateUnranked(i) ==
  /\ qs[i].pc = "generate"
  /\ \E out \in LLMTexts :
       qs' = [qs EXCEPT ![i] =
                [@ EXCEPT !.pc = "done",
                          !.out = out,
                          !.hasResponse = TRUE,
                          !.response = [text |-> ResponseText(out),
                                        source_nodes |-> qs[i].nodes],
                          !.calls = Bump(qs[i].calls, "llm"),
                          !.trace = Append(qs[i].trace, "generate")]]
  /\ UNCHANGED QFrame

\* the language model is called with the prompt; the Response is returned
Generate(i) ==
  /\ qs[i].pc = "generate"
  /\ \E out \in LLMTexts :
       qs' = [qs EXCEPT ![i] =
                [@ EXCEPT !.pc = "done",
                          !.out = out,
                          !.hasResponse = TRUE,
                          !.response = [text |-> ResponseText(out),
                                        source_nodes |-> qs[i].reranked],
                          !.calls = Bump(qs[i].calls, "llm"),
                          !.trace = Append(qs[i].trace, "generate")]]
  /\ UNCHANGED QFrame

\* variant: a failed model call is repeated once before giving up
GenerateFailRetry(i) ==
  /\ qs[i].pc = "generate"
  /\ qs' = [qs EXCEPT ![i] =
              IF qs[i].calls.llm = 0
                THEN [@ EXCEPT !.calls = Bump(qs[i].calls, "llm")]
                ELSE Fail(qs[i], "llm")]
  /\ UNCHANGED QFrame

\* the model is unreachable or exceeds request_timeout
GenerateFail(i) ==
  /\ qs[i].pc = "generate"
  /\ qs' = [qs EXCEPT ![i] = Fail(qs[i], "llm")]
  /\ UNCHANGED QFrame

Next ==
  \/ LoaderNoFiles
  \/ LoadData
  \/ SetEmbedModel
  \/ CreateIndexStart
  \/ IndexBatch
  \/ IndexBatchEmbedFail
  \/ IndexBatchStoreFail
  \/ CreateIndexReturn
  \/ \E i \in QueryIds : StartQuery(i)
  \/ \E i \in QueryIds : EmbedQuery(i)
  \/ \E i \in QueryIds : EmbedQueryFail(i)
  \/ \E i \in QueryIds : VectorSearch(i)
  \/ \E i \in QueryIds : VectorSearchFail(i)
  \/ \E i \in QueryIds : Rerank(i)
  \/ \E i \in QueryIds : SynthesizeEmpty(i)
  \/ \E i \in QueryIds : BuildPrompt(i)
  \/ \E i \in QueryIds : Generate(i)
  \/ \E i \in QueryIds : GenerateFail(i)

Spec == Init /\ [][Next]_vars

\* ------------------------------------------- the indexing cell is run again
NoQueryRunning == \A i \in QueryIds : qs[i].pc \in {"idle", "done", "error"}

\* variant: the nodes of a run get the ids of the run before
RerunCreateIndexSameIds ==
  /\ pcN = "ready"
  /\ NoQueryRunning
  /\ runs < MaxIndexRuns
  /\ pending' = WithIds(ChunkAll(docs), 1)
  /\ nextId' = nextId
  /\ runs' = runs + 1
  /\ pcN' = "indexing"
  /\ UNCHANGED << dir, collection, nbErr, docs, reported, embed_model,
                  index, qs >>

\* index = create_index(docs) is executed once more on the same docs
RerunCreateIndex ==
  /\ pcN = "ready"
  /\ NoQueryRunning
  /\ runs < MaxIndexRuns
  /\ pending' = WithIds(ChunkAll(docs), nextId)
  /\ nextId' = nextId + Len(ChunkAll(docs))
  /\ runs' = runs + 1
  /\ pcN' = "indexing"
  /\ UNCHANGED << dir, collection, nbErr, docs, reported, embed_model,
                  index, qs >>

\* the setup cells alone, the indexing cell run up to MaxIndexRuns times
ReindexNext ==
  \/ LoaderNoFiles
  \/ LoadData
  \/ SetEmbedModel
  \/ CreateIndexStart
  \/ IndexBatch
  \/ IndexBatchEmbedFail
  \/ IndexBatchStoreFail
  \/ CreateIndexReturn
  \/ RerunCreateIndex

ReindexSpec == Init /\ [][ReindexNext]_vars

\* --------------------------------------------------- overlapping queries
\* the host issues a query while earlier ones are still running
StartQueryOverlapping(i) ==
  /\ pcN = "ready"
  /\ qs[i].pc = "idle"
  /\ \E q \in QueryStrings :
       qs' = [qs EXCEPT ![i] = [@ EXCEPT !.pc = "embed", !.query = q]]
  /\ UNCHANGED QFrame

OverlapNext ==
  \/ LoaderNoFiles
  \/ LoadData
  \/ SetEmbedModel
  \/ CreateIndexStart
  \/ IndexBatch
  \/ IndexBatchEmbedFail
  \/ IndexBatchStoreFail
  \/ CreateIndexReturn
  \/ \E i \in QueryIds : StartQueryOverlapping(i)
  \/ \E i \in QueryIds : EmbedQuery(i)
  \/ \E i \in QueryIds : EmbedQueryFail(i)
  \/ \E i \in QueryIds : VectorSearch(i)
  \/ \E i \in QueryIds : VectorSearchFail(i)
  \/ \E i \in QueryIds : Rerank(i)
  \/ \E i \in QueryIds : SynthesizeEmpty(i)
  \/ \E i \in QueryIds : BuildPrompt(i)
  \/ \E i \in QueryIds : Generate(i)
  \/ \E i \in QueryIds : GenerateFail(i)

\* ./docs holds every file or no PDF at all; the server is in any of its
\* initial states
OverlapInit == Init /\ dir \in {Files, {"n1"}}

OverlapSpec == OverlapInit /\ [][OverlapNext]_vars

\* ================================================================ claims
FourStages == << "retrieve", "rerank", "prompt", "generate" >>

IsPrefix(s, t) == Len(s) <= Len(t) /\ s = SubSeq(t, 1, Len(s))

SimTo(i, pt) == Similarity(qs[i].qvec, pt.vector)

Retrieved(i) == Len(qs[i].trace) >= 1

\* C2: the retriever returns min(K, M) distinct chunks of the collection, in
\* non-increasing similarity to the query, and no chunk it leaves out is more
\* similar to the query than a chunk it returns.
C2_RetrieverTopK ==
  \A i \in QueryIds :
    Retrieved(i) =>
      LET ns == qs[i].nodes
          pts == collection.points
          Returned == { ns[j].node.id : j \in 1..Len(ns) }
      IN  /\ Len(ns) = Min(similarity_top_k, Len(pts))
          /\ \A j \in 1..Len(ns) :
               \E k \in 1..Len(pts) :
                 /\ pts[k].node = ns[j].node
                 /\ ns[j].score = SimTo(i, pts[k])
          /\ \A j, k \in 1..Len(ns) : j # k => ns[j].node.id # ns[k].node.id
          /\ \A j \in 1..(Len(ns) - 1) : ns[j].score >= ns[j + 1].score
          /\ \A k \in 1..Len(pts) :
               pts[k].node.id \notin Returned =>
                 \A j \in 1..Len(ns) : SimTo(i, pts[k]) <= ns[j].score

C2_Witness ==
  \E i \in QueryIds :
    /\ Retrieved(i)
    /\ Len(collection.points) > similarity_top_k
    /\ Len(qs[i].nodes) = similarity_top_k
    /\ qs[i].nodes[1].score > qs[i].nodes[similarity_top_k].score

Reranked(i) == Len(qs[i].trace) >= 2

\* C3: every chunk the reranker returns is a chunk of its input, and it
\* returns at most as many as it was given and at most top_n.
C3_RerankSubset ==
  \A i \in QueryIds :
    Reranked(i) =>
      /\ \A j \in 1..Len(qs[i].reranked) :
           \E k \in 1..Len(qs[i].nodes) :
             qs[i].reranked[j].node.id = qs[i].nodes[k].node.id
      /\ Len(qs[i].reranked) <= Len(qs[i].nodes)
      /\ Len(qs[i].reranked) <= top_n

C3_Witness ==
  \E i \in QueryIds :
    /\ Reranked(i)
    /\ Len(qs[i].nodes) > top_n
    /\ Len(qs[i].reranked) = top_n

\* C4: the reranker returns the min(top_n, input size) candidates of highest
\* new score, in non-increasing order of the new score whatever their
\* retrieval score, and each returned chunk is the input chunk unaltered.
C4_RerankTopNByNewScore ==
  \A i \in QueryIds :
    Reranked(i) =>
      LET ns == qs[i].nodes
          rs == qs[i].reranked
          New(n) == CrossScore(qs[i].query, n.text)
          Kept == { rs[j].node.id : j \in 1..Len(rs) }
      IN  /\ Len(rs) = Min(top_n, Len(ns))
          /\ \A j \in 1..Len(rs) :
               /\ rs[j].score = New(rs[j].node)
               /\ \E k \in 1..Len(ns) : ns[k].node = rs[j].node
          /\ \A j \in 1..(Len(rs) - 1) : rs[j].score >= rs[j + 1].score
          /\ \A k \in 1..Len(ns) :
               ns[k].node.id \notin Kept =>
                 \A j \in 1..Len(rs) : New(ns[k].node) <= rs[j].score

\* the retrieval score the reranked candidate j of call i had
OldScore(i, j) ==
  LET k == CHOOSE k \in 1..Len(qs[i].nodes) :
             qs[i].nodes[k].node.id = qs[i].reranked[j].node.id
  IN  qs[i].nodes[k].score

C4_Witness ==
  \E i \in QueryIds :
    /\ Reranked(i)
    /\ Len(qs[i].nodes) > top_n
    /\ Len(qs[i].reranked) = top_n
    /\ \E j \in 1..(top_n - 1) :
         /\ qs[i].reranked[j].score > qs[i].reranked[j + 1].score
         /\ OldScore(i, j) < OldScore(i, j + 1)

Prompted(i) == Len(qs[i].trace) >= 3

\* the prompt with the given context block in the context slot and the
\* query of call i in the query slot
PromptAround(i, block) ==
  << template[1] >> \o block \o << template[3] >> \o qs[i].query
    \o << template[5] >>

\* the sequences blocks[1], sep, blocks[2], sep, ... in one sequence
Joined(blocks, sep) ==
  Flatten([ j \in 1..Len(blocks) |->
              (IF j > 1 THEN << sep >> ELSE << >>) \o blocks[j] ])

\* C5 as stated: the context slot holds the chunk texts, in the given order,
\* separated by the fixed delimiter, and the query slot holds the query.
C5_ContextIsJoinedTexts ==
  \A i \in QueryIds :
    Prompted(i) =>
      qs[i].prompt =
        PromptAround(i, Joined([ j \in 1..Len(qs[i].reranked) |->
                                   qs[i].reranked[j].node.text ], "\n\n"))

\* C5 (amended): the context slot holds one block per chunk, in the given
\* order and separated by a blank line, each block being the chunk's metadata
\* header (page label, file path), a blank line and the chunk's text; the
\* query slot holds the literal query string.
C5_ContextIsJoinedContents ==
  \A i \in QueryIds :
    Prompted(i) =>
      qs[i].prompt =
        PromptAround(i, Joined([ j \in 1..Len(qs[i].reranked) |->
                                   << PageLabel(qs[i].reranked[j].node.page),
                                      FilePath(qs[i].reranked[j].node.file),
                                      "\n\n" >>
                                   \o qs[i].reranked[j].node.text ], "\n\n"))

C5_Witness ==
  \E i \in QueryIds :
    /\ Prompted(i)
    /\ Len(qs[i].reranked) = top_n
    /\ qs[i].reranked[1].node.text # qs[i].reranked[2].node.text
    /\ qs[i].reranked[2].node.text # qs[i].reranked[3].node.text
    /\ qs[i].reranked[1].node.text # qs[i].query

\* C6 as stated: the Response carries the model's text unchanged and the
\* reranker's output as evidence.
C6_TextVerbatim ==
  \A i \in QueryIds :
    (qs[i].pc = "done" /\ qs[i].calls.llm = 1) =>
      /\ qs[i].response.text = qs[i].out
      /\ qs[i].response.source_nodes = qs[i].reranked

\* C6 (amended): the Response carries the model's text unchanged when that
\* text is not empty, and the fixed text "Empty Response" when the model
\* generated an empty text or was not called because the reranker returned
\* nothing; its evidence list is exactly the reranker's output: same chunks,
\* same scores, same order.
C6_ResponseThreadsEvidence ==
  \A i \in QueryIds :
    qs[i].pc = "done" =>
      /\ qs[i].hasResponse
      /\ qs[i].response.source_nodes = qs[i].reranked
      /\ (qs[i].calls.llm = 1 /\ qs[i].out # "") =>
           qs[i].response.text = qs[i].out
      /\ (qs[i].calls.llm = 0 \/ qs[i].out = "") =>
           qs[i].response.text = "Empty Response"

C6_Witness ==
  \E i \in QueryIds :
    /\ qs[i].pc = "done"
    /\ qs[i].out = "answer"
    /\ Len(qs[i].nodes) > top_n
    /\ Len(qs[i].response.source_nodes) = top_n
    /\ qs[i].response.source_nodes[1].node.id # qs[i].nodes[1].node.id

EmptyCollection == collection.exists /\ collection.points = << >>

C8_EmbedFailureDoesNotAbort ==
  nbErr = "embed" => pcN # "halted"

\* the chunk texts of page p of file f
PageChunks(f, p) == SplitText(Pages(f)[p])

\* the points this run has written (earlier sessions wrote id 0)
NewPoints == { k \in 1..Len(collection.points) : collection.points[k].node.id > 0 }

\* C8 (amended): a file that fails to parse is reported and skipped by the
\* loader, which still loads every other file; nothing of a reported file is
\* stored, and when create_index returns every chunk of every other file is
\* stored.  A failure to embed (or to write) is not skipped: it ends
\* create_index with the exception, no index is bound, no query runs, and the
\* nodes that were not yet written stay unwritten.
C8_ParseSkippedEmbedAborts ==
  /\ reported \subseteq InputFiles
  /\ pcN \in {"loaded", "configured", "indexing", "ready"} =>
       /\ \A f \in InputFiles \ reported : \A p \in 1..Len(Pages(f)) :
            \E j \in 1..Len(docs) :
              docs[j] = [file |-> f, page |-> p, text |-> Pages(f)[p]]
       /\ \A j \in 1..Len(docs) : docs[j].file \in InputFiles \ reported
  /\ \A k \in NewPoints : collection.points[k].node.file \in InputFiles \ reported
  /\ pcN = "ready" =>
       \A f \in InputFiles \ reported : \A p \in 1..Len(Pages(f)) :
         \A c \in 1..Len(PageChunks(f, p)) :
           \E k \in NewPoints :
             /\ collection.points[k].node.file = f
             /\ collection.points[k].node.page = p
             /\ collection.points[k].node.text = PageChunks(f, p)[c]
  /\ nbErr \in {"embed", "store"} =>
       /\ pcN = "halted"
       /\ ~index
       /\ pending # << >>
       /\ \A j \in 1..Len(pending) : \A k \in 1..Len(collection.points) :
            collection.points[k].node.id # pending[j].id
       /\ \A i \in QueryIds : qs[i].pc = "idle"

C8_Witness ==
  /\ pcN = "ready"
  /\ reported = {"f2"}
  /\ "f1" \in InputFiles
  /\ Cardinality(NewPoints) = 10

\* C9: a failing call of the embedding service, the vector store or the
\* language model is made once and never repeated, no later stage of that
\* query runs, and the query ends in that error without a Response.
C9_FailOnceNoRetry ==
  \A i \in QueryIds :
    /\ qs[i].calls.embed <= 1 /\ qs[i].calls.store <= 1 /\ qs[i].calls.llm <= 1
    /\ qs[i].pc = "error" =>
         /\ ~qs[i].hasResponse
         /\ qs[i].calls[qs[i].err] = 1
         /\ qs[i].err = "embed" =>
              /\ qs[i].trace = << >>
              /\ qs[i].calls.store = 0 /\ qs[i].calls.llm = 0
         /\ qs[i].err = "store" =>
              /\ qs[i].trace = << >>
              /\ qs[i].calls.llm = 0
         /\ qs[i].err = "llm" =>
              qs[i].trace = << "retrieve", "rerank", "prompt" >>

C9_Witness ==
  /\ qs[1].pc = "error" /\ qs[1].err = "llm"
  /\ qs[2].pc = "error" /\ qs[2].err = "store"

\* C10: a query leaves the collection as indexing left it, and the evidence
\* and the prompt of a query are determined by its query string and the
\* contents of the collection alone, whatever queries ran before it.
C10_QueryStateless ==
  /\ [][pcN = "ready" => collection' = collection]_vars
  /\ [](\A i \in QueryIds :
          LET fresh == PostprocessNodes(
                         VectorStoreQuery(collection.points,
                                          Embed(BgeModel, qs[i].query),
                                          similarity_top_k),
                         qs[i].query)
          IN  /\ Reranked(i) => qs[i].reranked = fresh
              /\ Prompted(i) =>
                   qs[i].prompt = FormatPrompt(template, JoinContents(fresh),
                                               qs[i].query)
              /\ qs[i].pc = "done" => qs[i].response.source_nodes = fresh)

C10_Witness ==
  /\ qs[1].pc = "done"
  /\ qs[2].pc = "done"
  /\ qs[1].query # qs[2].query
  /\ qs[1].response.source_nodes # qs[2].response.source_nodes
  /\ qs[1].response.source_nodes # << >>

\* C11: after any sequence of indexing runs every stored chunk has exactly
\* one embedding (one point per id, one vector per point) and every embedding
\* of the collection has the collection's dimensionality.
C11_OneEmbeddingOneDimension ==
  LET pts == collection.points
  IN  /\ pts # << >> => collection.exists
      /\ \A k \in 1..Len(pts) : Len(pts[k].vector) = collection.dim
      /\ \A j, k \in 1..Len(pts) : Len(pts[j].vector) = Len(pts[k].vector)
      /\ \A j, k \in 1..Len(pts) :
           pts[j].node.id = pts[k].node.id => j = k
      /\ \A k \in 1..Len(pts) :
           pts[k].vector = Embed(pts[k].model, GetContent(pts[k].node))

C11_Witness ==
  /\ runs = 2
  /\ pcN = "ready"
  /\ collection.points # << >>
  /\ collection.points[1] = OldPoint
  /\ Len(collection.points) > 2 * InsertBatchSize

\* C12: the model that embeds the query of every query is the model that
\* embedded the chunks written by create_index: Settings.embed_model is set
\* before create_index runs and is not changed afterwards.
C12_SameEmbedModel ==
  /\ [][runs >= 1 => embed_model' = embed_model]_vars
  /\ [](/\ runs >= 1 => embed_model = BgeModel
        /\ \A k \in NewPoints : collection.points[k].model = embed_model
        /\ \A i \in QueryIds :
             qs[i].qmodel # "" =>
               /\ qs[i].qmodel = embed_model
               /\ \A k \in NewPoints :
                    collection.points[k].model = qs[i].qmodel)

C12_Witness ==
  /\ qs[1].pc = "done"
  /\ qs[1].qmodel = BgeModel
  /\ NewPoints # {}
  /\ qs[1].response.source_nodes # << >>
  /\ qs[1].response.source_nodes[1].node.id > 0

\* C13: create_index runs exactly once, and no query starts before that run
\* has returned with every chunk of docs written; no query sees the
\* collection partly written.
C13_IndexOnceBeforeQueries ==
  /\ runs <= 1
  /\ pcN = "ready" => runs = 1
  /\ \A i \in QueryIds :
       qs[i].pc # "idle" =>
         /\ pcN = "ready"
         /\ index
         /\ pending = << >>
         /\ Cardinality(NewPoints) = Len(ChunkAll(docs))

C13_Witness ==
  /\ qs[1].pc = "rerank"
  /\ Cardinality(NewPoints) > 2 * InsertBatchSize
  /\ Len(qs[1].nodes) = similarity_top_k

\* what query i retrieves from the collection when it runs alone
AloneNodes(i) ==
  VectorStoreQuery(collection.points, Embed(embed_model, qs[i].query),
                   similarity_top_k)

\* C14: queries that overlap do not interfere: at every stage, in every
\* interleaving, a query holds what it would hold had it run alone.
C14_OverlapNoInterference ==
  \A i \in QueryIds :
    Retrieved(i) =>
      LET aloneNodes    == AloneNodes(i)
          aloneEvidence == PostprocessNodes(aloneNodes, qs[i].query)
      IN  /\ qs[i].nodes = aloneNodes
          /\ Reranked(i) => qs[i].reranked = aloneEvidence
          /\ Prompted(i) =>
               qs[i].prompt = FormatPrompt(template, JoinContents(aloneEvidence),
                                           qs[i].query)
          /\ qs[i].pc = "done" =>
               qs[i].response =
                 [text |-> IF aloneEvidence = << >> THEN "Empty Response"
                           ELSE ResponseText(qs[i].out),
                  source_nodes |-> aloneEvidence]

C14_Witness ==
  /\ qs[1].pc = "rerank"
  /\ qs[2].pc = "generate"
  /\ qs[1].query # qs[2].query
  /\ qs[1].nodes # qs[2].nodes

\* the points written by this session, in the order of the collection
NewPointSeq == SelectSeq(collection.points, LAMBDA p : p.node.id > 0)

\* C15: a second run of create_index on the same docs adds every chunk once
\* more under a fresh id, so the collection grows, and it neither removes nor
\* replaces a point that is already stored.
C15_ReindexDuplicates ==
  /\ [][\A k \in 1..Len(collection.points) :
          /\ k <= Len(collection'.points)
          /\ collection'.points[k] = collection.points[k]]_vars
  /\ [](pcN = "ready" =>
          /\ Len(NewPointSeq) = runs * Len(ChunkAll(docs))
          /\ \A k \in 1..Len(NewPointSeq) :
               LET first == ((k - 1) % Len(ChunkAll(docs))) + 1
               IN  /\ NewPointSeq[k].node.text = NewPointSeq[first].node.text
                   /\ NewPointSeq[k].node.file = NewPointSeq[first].node.file
                   /\ NewPointSeq[k].node.page = NewPointSeq[first].node.page
                   /\ k # first => NewPointSeq[k].node.id # NewPointSeq[first].node.id)

C15_Witness ==
  /\ pcN = "ready"
  /\ runs = 2
  /\ Len(ChunkAll(docs)) = 12
  /\ Len(NewPointSeq) = 24

====
